---- MODULE Spec2Model ----
(***************************************************************************)
(* Model of src/main.py: the data discovery and loading pipeline of the    *)
(* polar-plant dashboard (find_files_by_ext, load_environment_data,        *)
(* load_growth_data behind st.cache_data), the st.stop guard and the       *)
(* overview tab that consumes the two datasets.                            *)
(*                                                                         *)
(* A string is a sequence of Unicode code points (integers).  The inputs   *)
(* are drawn from ASCII and Hangul, the two scripts the repository's file  *)
(* names, sheet names and school identifiers use.  DATA_DIR exists and its *)
(* entries are files; one session runs the script at a time.               *)
(***************************************************************************)
EXTENDS Integers, Sequences, FiniteSets, TLC

(***************************************************************************)
(* Bounds of the model.                                                    *)
(***************************************************************************)
\* script reruns explored per process
MaxRuns == 3
\* changes (a file removed, a file added) the environment makes to the directory
MaxChanges == 2

(***************************************************************************)
(* unicodedata.normalize("NFC", .) on ASCII and Hangul: canonical          *)
(* decomposition followed by canonical composition (Unicode 3.12,          *)
(* conjoining jamo behaviour).                                             *)
(***************************************************************************)
SBase == 44032
LBase == 4352
VBase == 4449
TBase == 4519
LCount == 19
VCount == 21
TCount == 28

NCount == VCount * TCount
SCount == LCount * NCount

IsSyllable(c) == c >= SBase /\ c < SBase + SCount
IsL(c) == c >= LBase /\ c < LBase + LCount
IsV(c) == c >= VBase /\ c < VBase + VCount
IsT(c) == c > TBase /\ c < TBase + TCount
IsLV(c) == IsSyllable(c) /\ (c - SBase) % TCount = 0

Decompose(c) ==
    IF IsSyllable(c)
    THEN LET SIndex == c - SBase
             L == LBase + (SIndex \div NCount)
             V == VBase + ((SIndex % NCount) \div TCount)
             T == TBase + (SIndex % TCount)
         IN  IF T = TBase THEN <<L, V>> ELSE <<L, V, T>>
    ELSE <<c>>

RECURSIVE NFD(_)
NFD(s) == IF s = <<>> THEN <<>> ELSE Decompose(Head(s)) \o NFD(Tail(s))

\* canonical composition, left to right; out is the text composed so far
RECURSIVE ComposeFrom(_, _)
ComposeFrom(out, s) ==
    IF s = <<>> THEN out
    ELSE LET c == Head(s)
             n == Len(out)
             last == out[n]
         IN  IF n > 0 /\ IsL(last) /\ IsV(c)
             THEN ComposeFrom([out EXCEPT ![n] =
                     SBase + ((last - LBase) * VCount + (c - VBase)) * TCount],
                     Tail(s))
             ELSE IF n > 0 /\ IsLV(last) /\ IsT(c)
             THEN ComposeFrom([out EXCEPT ![n] = last + (c - TBase)], Tail(s))
             ELSE ComposeFrom(Append(out, c), Tail(s))

NFC(s) == ComposeFrom(<<>>, NFD(s))

normalize_name(name) == NFC(name)

(***************************************************************************)
(* str.lower(), str.rfind("."), Path.suffix, Path.stem, str.split("_")[0]  *)
(***************************************************************************)
\* "." and "_"
Dot == 46
Underscore == 95

LowerChar(c) == IF c >= 65 /\ c <= 90 THEN c + 32 ELSE c
lower(s) == [i \in 1..Len(s) |-> LowerChar(s[i])]

\* index of the last occurrence of ch in s, 0 when there is none
LastIndexOf(s, ch) ==
    LET hits == {i \in 1..Len(s) : s[i] = ch}
    IN  IF hits = {} THEN 0 ELSE CHOOSE i \in hits : \A j \in hits : j <= i

FirstIndexOf(s, ch) ==
    LET hits == {i \in 1..Len(s) : s[i] = ch}
    IN  IF hits = {} THEN 0 ELSE CHOOSE i \in hits : \A j \in hits : j >= i

\* pathlib: the suffix starts at the last dot, unless that dot is the first
\* or the last character of the name
HasSuffix(name) ==
    LET i == LastIndexOf(name, Dot) IN i > 1 /\ i < Len(name)

suffix(name) ==
    IF HasSuffix(name)
    THEN SubSeq(name, LastIndexOf(name, Dot), Len(name))
    ELSE <<>>

stem(name) ==
    IF HasSuffix(name)
    THEN SubSeq(name, 1, LastIndexOf(name, Dot) - 1)
    ELSE name

\* s.split("_")[0]
LeadingToken(s) ==
    LET i == FirstIndexOf(s, Underscore)
    IN  IF i = 0 THEN s ELSE SubSeq(s, 1, i - 1)

(***************************************************************************)
(* find_files_by_ext: the entries of the directory, in iteration order,    *)
(* whose lower-cased, normalized suffix equals ext.  ext is compared as    *)
(* given.                                                                  *)
(***************************************************************************)
ExtMatches(f, ext) == normalize_name(lower(suffix(f.name))) = ext

find_files_by_ext(directory, ext) ==
    SelectSeq(directory, LAMBDA f : ExtMatches(f, ext))

(***************************************************************************)
(* Python values: None and a dict are kept apart by the flag "some"; a     *)
(* dict is a function from keys (strings) to values.                       *)
(***************************************************************************)
EmptyDict == [k \in {} |-> <<>>]
None == [some |-> FALSE, data |-> EmptyDict]
Some(d) == [some |-> TRUE, data |-> d]

DictSet(d, k, v) == [x \in (DOMAIN d) \cup {k} |-> IF x = k THEN v ELSE d[x]]

\* the result of a call: a returned value or a raised exception, with the
\* st.error messages it showed and the files it opened
Returned(v, msgs, files) ==
    [raised |-> FALSE, exc |-> "", value |-> v, messages |-> msgs, opened |-> files]
Raised(e, msgs, files) ==
    [raised |-> TRUE, exc |-> e, value |-> None, messages |-> msgs, opened |-> files]

(***************************************************************************)
(* Files.  A file has a name and a content: a delimited text (rows), a     *)
(* workbook (sheets), or something else.  ok = FALSE is a content          *)
(* the parser of that kind rejects.                                        *)
(***************************************************************************)
CsvFile(n, good, r) == [name |-> n, kind |-> "csv", ok |-> good, rows |-> r, sheets |-> <<>>]
XlsxFile(n, good, sh) == [name |-> n, kind |-> "xlsx", ok |-> good, rows |-> <<>>, sheets |-> sh]
OtherFile(n) == [name |-> n, kind |-> "other", ok |-> TRUE, rows |-> <<>>, sheets |-> <<>>]

\* pd.read_csv(file), no parse_dates: an empty field becomes NaN, every
\* other field of the time column stays the string that was read
TimeCell(raw) ==
    IF raw = "" THEN [type |-> "float", value |-> "nan"]
    ELSE [type |-> "str", value |-> raw]

ParseRow(r) == [r EXCEPT !.time = TimeCell(r.time)]

read_csv(file) ==
    IF file.kind = "csv" /\ file.ok
    THEN Returned([i \in 1..Len(file.rows) |-> ParseRow(file.rows[i])], <<>>, <<file.name>>)
    ELSE Raised("ParserError", <<>>, <<file.name>>)

\* pd.ExcelFile(path).sheet_names and pd.read_excel(path, sheet_name=sheet)
ExcelFile(file) ==
    IF file.kind = "xlsx" /\ file.ok
    THEN Returned(file.sheets, <<>>, <<file.name>>)
    ELSE Raised("BadZipFile", <<>>, <<file.name>>)

read_excel(sheet) == sheet.rows

(***************************************************************************)
(* load_environment_data (body, without the cache)                         *)
(***************************************************************************)
CsvExt == <<46, 99, 115, 118>>
XlsxExt == <<46, 120, 108, 115, 120>>

EnvNotFoundMsg == "env csv not found"
GrowthNotFoundMsg == "growth xlsx not found"

\* a faulty key: the whole stem, not its leading token
SchoolOfFileWholeStem(file) == normalize_name(stem(file.name))

SchoolOfFile(file) == normalize_name(LeadingToken(stem(file.name)))

\* the for loop over csv_files: env_data so far, files opened so far
RECURSIVE EnvLoop(_, _, _)
EnvLoop(csv_files, env_data, files) ==
    IF csv_files = <<>> THEN Returned(Some(env_data), <<>>, files)
    ELSE LET file == Head(csv_files)
             school == SchoolOfFile(file)
             df == read_csv(file)
         IN  IF df.raised
             THEN Raised(df.exc, <<>>, files \o df.opened)
             ELSE EnvLoop(Tail(csv_files), DictSet(env_data, school, df.value),
                          files \o df.opened)

load_environment_data(data_dir) ==
    LET csv_files == find_files_by_ext(data_dir, CsvExt)
    IN  IF csv_files = <<>>
        THEN Returned(None, <<EnvNotFoundMsg>>, <<>>)
        ELSE EnvLoop(csv_files, EmptyDict, <<>>)

(***************************************************************************)
(* load_growth_data (body, without the cache)                              *)
(***************************************************************************)
\* a faulty key: the sheet name as stored, not normalized
SchoolOfSheetRaw(sheet) == sheet.name

SchoolOfSheet(sheet) == normalize_name(sheet.name)

RECURSIVE GrowthLoop(_, _)
GrowthLoop(sheets, growth_data) ==
    IF sheets = <<>> THEN growth_data
    ELSE GrowthLoop(Tail(sheets),
                    DictSet(growth_data, SchoolOfSheet(Head(sheets)),
                            read_excel(Head(sheets))))

\* a faulty loader: an empty mapping, not None, when no workbook is found
load_growth_data_EmptyOnMissing(data_dir) ==
    LET xlsx_files == find_files_by_ext(data_dir, XlsxExt)
    IN  IF xlsx_files = <<>>
        THEN Returned(Some(EmptyDict), <<GrowthNotFoundMsg>>, <<>>)
        ELSE LET xlsx_path == xlsx_files[1]
                 xls == ExcelFile(xlsx_path)
             IN  IF xls.raised
                 THEN Raised(xls.exc, <<>>, xls.opened)
                 ELSE Returned(Some(GrowthLoop(xls.value, EmptyDict)), <<>>, xls.opened)

load_growth_data(data_dir) ==
    LET xlsx_files == find_files_by_ext(data_dir, XlsxExt)
    IN  IF xlsx_files = <<>>
        THEN Returned(None, <<GrowthNotFoundMsg>>, <<>>)
        ELSE LET xlsx_path == xlsx_files[1]
                 xls == ExcelFile(xlsx_path)
             IN  IF xls.raised
                 THEN Raised(xls.exc, <<>>, xls.opened)
                 ELSE Returned(Some(GrowthLoop(xls.value, EmptyDict)), <<>>, xls.opened)

(***************************************************************************)
(* The module-level configuration: ec_conditions (school -> target EC).    *)
(* The school identifiers, in composed form (NFC):                         *)
(*   Songdo  U+C1A1 U+B3C4 U+ACE0     Haneul  U+D558 U+B298 U+ACE0         *)
(*   Ara     U+C544 U+B77C U+ACE0     Dongsan U+B3D9 U+C0B0 U+ACE0         *)
(***************************************************************************)
Songdo == <<49569, 46020, 44256>>
Haneul == <<54616, 45720, 44256>>
Ara == <<50500, 46972, 44256>>
Dongsan == <<46041, 49328, 44256>>

ec_conditions == (Songdo :> 1) @@ (Haneul :> 2) @@ (Ara :> 4) @@ (Dongsan :> 8)

(***************************************************************************)
(* sorted(set(env_data.keys()) & set(growth_data.keys())): strings compare *)
(* by code point, position by position.                                    *)
(***************************************************************************)
StrLess(a, b) ==
    \E i \in 1..(Len(b)) :
        /\ \A j \in 1..(i - 1) : j <= Len(a) /\ a[j] = b[j]
        /\ (i > Len(a) \/ a[i] < b[i])

RECURSIVE sorted(_)
sorted(S) ==
    IF S = {} THEN <<>>
    ELSE LET m == CHOOSE x \in S : \A y \in S : x = y \/ StrLess(x, y)
         IN  <<m>> \o sorted(S \ {m})

CommonSchools(env_data, growth_data) ==
    sorted((DOMAIN env_data.data) \cap (DOMAIN growth_data.data))

(***************************************************************************)
(* Tab 1 (overview).  A mean is kept as sum and count; the mean of no      *)
(* values is NaN, which compares False with everything.                    *)
(***************************************************************************)
RECURSIVE SumOf(_, _)
SumOf(rows, col) == IF rows = <<>> THEN 0 ELSE Head(rows)[col] + SumOf(Tail(rows), col)

mean(rows, col) == [sum |-> SumOf(rows, col), n |-> Len(rows)]

IsNaN(m) == m.n = 0
MeanGreater(a, b) == ~IsNaN(a) /\ ~IsNaN(b) /\ a.sum * b.n > b.sum * a.n

\* weight_means as the list of its items (key, value) in insertion order
\* (the target ECs of distinct schools are distinct)
RECURSIVE weight_means(_, _)
weight_means(school_list, growth_data) ==
    IF school_list = <<>> THEN <<>>
    ELSE LET s == Head(school_list)
         IN  <<[key |-> ec_conditions[s],
                value |-> mean(growth_data.data[s], "weight")]>>
             \o weight_means(Tail(school_list), growth_data)

\* max(items, key=value): the first item no later item exceeds
RECURSIVE MaxFrom(_, _)
MaxFrom(best, items) ==
    IF items = <<>> THEN best
    ELSE IF MeanGreater(Head(items).value, best.value)
         THEN MaxFrom(Head(items), Tail(items))
         ELSE MaxFrom(best, Tail(items))

\* Python values of different types, for == and dict lookup
PyStr(x) == [t |-> "str", s |-> x, n |-> 0]
PyNum(x) == [t |-> "num", s |-> <<>>, n |-> x]

PyEq(a, b) == a.t = b.t /\ a.s = b.s /\ a.n = b.n

\* d[key] for a dict d whose keys are strings
HasKey(d, key) == key.t = "str" /\ key.s \in DOMAIN d

Rendered(w, l) == [widget |-> w, label |-> l]

\* lines 155-168: what the overview tab renders, and the exception that ends it.
\* optimal_ec is a key of weight_means, a target EC; line 168 compares it with
\* the name of a school and, in both branches, looks it up in ec_conditions.
OverviewMetrics(school_list, growth_data) ==
    IF \E i \in 1..Len(school_list) : ~HasKey(ec_conditions, PyStr(school_list[i]))
    THEN [exc |-> "KeyError", at |-> "weight_means", rendered |-> <<>>,
          optimal_ec |-> 0, shown |-> 0]
    ELSE IF school_list = <<>>
    THEN [exc |-> "ValueError", at |-> "max", rendered |-> <<>>,
          optimal_ec |-> 0, shown |-> 0]
    ELSE LET items == weight_means(school_list, growth_data)
             optimal == PyNum(MaxFrom(Head(items), Tail(items)).key)
             three == <<Rendered("metric", "total_count"),
                        Rendered("metric", "avg_temp"),
                        Rendered("metric", "avg_hum")>>
         IN  IF HasKey(ec_conditions, optimal)
             THEN [exc |-> "", at |-> "", optimal_ec |-> optimal.n,
                   rendered |-> Append(three, Rendered("metric",
                       IF PyEq(optimal, PyStr(Haneul)) THEN "optimal_ec (haneul)"
                       ELSE "optimal_ec")),
                   shown |-> ec_conditions[optimal.s]]
             ELSE [exc |-> "KeyError", at |-> "c4.metric", optimal_ec |-> optimal.n,
                   rendered |-> three, shown |-> 0]

(***************************************************************************)
(* Input directories.  Names as code points:                               *)
(*   Nfd* are the decomposed (NFD) spellings of the school identifiers, as *)
(*   a file system or a spreadsheet tool may store them.                   *)
(***************************************************************************)
NfdSongdo == <<4361, 4457, 4540, 4355, 4457, 4352, 4457>>
NfdHaneul == <<4370, 4449, 4354, 4467, 4527, 4352, 4457>>

\* "_env.csv", "_env.CSV", "env_"
EnvCsvTail == <<95, 101, 110, 118, 46, 99, 115, 118>>
EnvCsvUpperTail == <<95, 101, 110, 118, 46, 67, 83, 86>>
EnvHead == <<101, 110, 118, 95>>

\* "songdo_env.csv", "haneul_env.csv", "ara_env.csv", "dongsan_env.csv"
SongdoEnvCsv == <<115, 111, 110, 103, 100, 111>> \o EnvCsvTail
HaneulEnvCsv == <<104, 97, 110, 101, 117, 108>> \o EnvCsvTail
AraEnvCsv == <<97, 114, 97>> \o EnvCsvTail
DongsanEnvCsv == <<100, 111, 110, 103, 115, 97, 110>> \o EnvCsvTail
\* "growth_results.xlsx", "DATA.XLSX", "broken.csv", "notes.txt", "bad.xlsx"
GrowthResultsXlsx == <<103, 114, 111, 119, 116, 104, 95, 114, 101, 115, 117, 108, 116, 115>> \o XlsxExt
DataXlsxUpper == <<68, 65, 84, 65, 46, 88, 76, 83, 88>>
BrokenCsv == <<98, 114, 111, 107, 101, 110>> \o CsvExt
NotesTxt == <<110, 111, 116, 101, 115, 46, 116, 120, 116>>
BadXlsx == <<98, 97, 100>> \o XlsxExt

T0 == "2024-06-01 00:00:00"
T1 == "2024-06-01 00:10:00"
\* the raw time fields that are timestamps; "" is a missing field
ValidTimes == {T0, T1}

EnvRow(t, temp, hum) == [time |-> t, temperature |-> temp, humidity |-> hum, ph |-> 6, ec |-> 2]
GoodRows == <<EnvRow(T0, 21, 60), EnvRow(T1, 22, 58)>>
BadTimeRows == <<EnvRow(T0, 20, 55), EnvRow("", 20, 56), EnvRow("sensor reset", 21, 57)>>

GrowthRow(w, l, h) == [weight |-> w, leaves |-> l, length |-> h]
Sheet(n, r) == [name |-> n, rows |-> r]

FourSheets ==
    <<Sheet(Songdo, <<GrowthRow(3, 4, 50), GrowthRow(5, 6, 70)>>),
      Sheet(Haneul, <<GrowthRow(8, 7, 90), GrowthRow(6, 7, 80)>>),
      Sheet(Ara, <<GrowthRow(4, 5, 60)>>),
      Sheet(Dongsan, <<GrowthRow(2, 3, 40), GrowthRow(2, 2, 30)>>)>>

\* the directory of the spec's scenario
ScenarioDir ==
    <<CsvFile(SongdoEnvCsv, TRUE, GoodRows), CsvFile(HaneulEnvCsv, TRUE, GoodRows),
      CsvFile(AraEnvCsv, TRUE, GoodRows), CsvFile(DongsanEnvCsv, TRUE, GoodRows),
      XlsxFile(GrowthResultsXlsx, TRUE, FourSheets)>>

\* files named after the schools, one stored decomposed, one with an
\* upper-case extension and rows whose time is missing or no timestamp
KoreanDir ==
    <<CsvFile(NfdSongdo \o EnvCsvTail, TRUE, GoodRows),
      CsvFile(Haneul \o EnvCsvUpperTail, TRUE, BadTimeRows),
      XlsxFile(DataXlsxUpper, TRUE,
               <<Sheet(NfdSongdo, <<GrowthRow(3, 4, 50)>>),
                 Sheet(Haneul, <<GrowthRow(8, 7, 90), GrowthRow(6, 7, 80)>>),
                 Sheet(Ara, <<GrowthRow(9, 5, 60)>>)>>)>>

\* a school's file with the identifier not leading, a file no parser reads,
\* and a workbook with two sheets whose names differ only in composition
KeywordDir ==
    <<CsvFile(EnvHead \o Songdo \o CsvExt, TRUE, GoodRows),
      CsvFile(BrokenCsv, FALSE, <<>>),
      XlsxFile(GrowthResultsXlsx, TRUE,
               <<Sheet(Songdo, <<GrowthRow(3, 4, 50)>>),
                 Sheet(NfdSongdo, <<GrowthRow(7, 8, 90), GrowthRow(5, 6, 70)>>)>>),
      OtherFile(NotesTxt)>>

Fixtures == {ScenarioDir, KoreanDir, KeywordDir}

\* files that may appear in the directory while the process runs
Extras == {XlsxFile(BadXlsx, FALSE, <<>>), CsvFile(Ara \o EnvCsvTail, TRUE, GoodRows)}

(***************************************************************************)
(* State                                                                   *)
(***************************************************************************)
VARIABLES
    dir,            \* the entries of DATA_DIR, in iteration order
    changes,        \* files removed or added so far
    cacheEnv,       \* st.cache_data entry of load_environment_data(DATA_DIR)
    cacheGrowth,    \* st.cache_data entry of load_growth_data(DATA_DIR)
    pc,             \* position of the current script run
    runs,           \* script runs started
    env_data,       \* module-level names of the script
    growth_data,
    schools,
    rendered,       \* st.dataframe / st.metric / st.plotly_chart calls of this run
    errors,         \* st.error messages of this run
    exc,            \* the exception that ended this run, if any
    optimal_ec,
    shown,          \* the value the "optimal EC" metric shows, 0 when not shown
    envBodyRuns,    \* times the body of load_environment_data has run
    growthBodyRuns, \* times the body of load_growth_data has run
    target,         \* extension match: the ext argument
    found           \* extension match: the list returned

vars == <<dir, changes, cacheEnv, cacheGrowth, pc, runs, env_data, growth_data, schools,
          rendered, errors, exc, optimal_ec, shown, envBodyRuns, growthBodyRuns,
          target, found>>

scriptVars == <<pc, env_data, growth_data, schools, rendered, errors, exc,
                optimal_ec, shown>>

\* an entry of the cache: has = FALSE while nothing is stored.  source and
\* opened record the directory the body read and the files it opened.
NoEntry == [has |-> FALSE, value |-> None, messages |-> <<>>, source |-> <<>>, opened |-> <<>>]
Entry(r, d) ==
    [has |-> TRUE, value |-> r.value, messages |-> r.messages, source |-> d, opened |-> r.opened]

NoExc == [name |-> "", at |-> ""]

Init ==
    /\ dir \in Fixtures
    /\ changes = 0
    /\ cacheEnv = NoEntry
    /\ cacheGrowth = NoEntry
    /\ pc = "start"
    /\ runs = 1
    /\ env_data = None
    /\ growth_data = None
    /\ schools = <<>>
    /\ rendered = <<>>
    /\ errors = <<>>
    /\ exc = NoExc
    /\ optimal_ec = 0
    /\ shown = 0
    /\ envBodyRuns = 0
    /\ growthBodyRuns = 0
    /\ target = <<>>
    /\ found = <<>>

(***************************************************************************)
(* The environment: files disappear from and appear in the directory.      *)
(***************************************************************************)
RemoveAt(s, i) == SubSeq(s, 1, i - 1) \o SubSeq(s, i + 1, Len(s))
InsertAt(s, i, x) == SubSeq(s, 1, i - 1) \o <<x>> \o SubSeq(s, i, Len(s))

RemoveFile ==
    /\ changes < MaxChanges
    /\ changes' = changes + 1
    /\ \E i \in 1..Len(dir) : dir' = RemoveAt(dir, i)
    /\ UNCHANGED <<cacheEnv, cacheGrowth, runs, envBodyRuns, growthBodyRuns,
                   target, found>>
    /\ UNCHANGED scriptVars

AddFile ==
    /\ changes < MaxChanges
    /\ \E f \in Extras, i \in 1..(Len(dir) + 1) :
        /\ \A j \in 1..Len(dir) : dir[j].name # f.name
        /\ dir' = InsertAt(dir, i, f)
    /\ changes' = changes + 1
    /\ UNCHANGED <<cacheEnv, cacheGrowth, runs, envBodyRuns, growthBodyRuns,
                   target, found>>
    /\ UNCHANGED scriptVars

(***************************************************************************)
(* The script.  st.cache_data: a call whose entry is stored returns the    *)
(* stored value and replays the stored st.error messages; otherwise the    *)
(* body runs, and its value is stored when it returns (not when it raises) *)
(***************************************************************************)
\* a faulty cache: it never hits
CacheHitNever(cache) == FALSE

CacheHit(cache) == cache.has

\* lines 83-84
LoadEnv ==
    /\ pc = "start"
    /\ LET hit == CacheHit(cacheEnv)
           r == IF hit THEN Returned(cacheEnv.value, cacheEnv.messages, <<>>)
                ELSE load_environment_data(dir)
       IN  /\ envBodyRuns' = IF hit THEN envBodyRuns ELSE envBodyRuns + 1
           /\ IF r.raised
              THEN /\ pc' = "crashed"
                   /\ exc' = [name |-> r.exc, at |-> "load_environment_data"]
                   /\ UNCHANGED <<cacheEnv, env_data, errors>>
              ELSE /\ pc' = "loadGrowth"
                   /\ env_data' = r.value
                   /\ errors' = errors \o r.messages
                   /\ cacheEnv' = IF hit THEN cacheEnv ELSE Entry(r, dir)
                   /\ UNCHANGED exc
    /\ UNCHANGED <<dir, changes, cacheGrowth, runs, growth_data, schools, rendered,
                   optimal_ec, shown, growthBodyRuns, target, found>>

\* line 85
LoadGrowth ==
    /\ pc = "loadGrowth"
    /\ LET hit == CacheHit(cacheGrowth)
           r == IF hit THEN Returned(cacheGrowth.value, cacheGrowth.messages, <<>>)
                ELSE load_growth_data(dir)
       IN  /\ growthBodyRuns' = IF hit THEN growthBodyRuns ELSE growthBodyRuns + 1
           /\ IF r.raised
              THEN /\ pc' = "crashed"
                   /\ exc' = [name |-> r.exc, at |-> "load_growth_data"]
                   /\ UNCHANGED <<cacheGrowth, growth_data, errors>>
              ELSE /\ pc' = "guard"
                   /\ growth_data' = r.value
                   /\ errors' = errors \o r.messages
                   /\ cacheGrowth' = IF hit THEN cacheGrowth ELSE Entry(r, dir)
                   /\ UNCHANGED exc
    /\ UNCHANGED <<dir, changes, cacheEnv, runs, env_data, schools, rendered,
                   optimal_ec, shown, envBodyRuns, target, found>>

\* a faulty guard: "and" for "or"
ShouldStopAnd(env, growth) == ~env.some /\ ~growth.some

\* line 87
ShouldStop(env, growth) == ~env.some \/ ~growth.some

\* lines 87-90: st.stop(), or the schools common to both datasets
Guard ==
    /\ pc = "guard"
    /\ IF ShouldStop(env_data, growth_data)
       THEN pc' = "stopped" /\ UNCHANGED <<schools, exc>>
       ELSE IF ~env_data.some \/ ~growth_data.some
       THEN /\ pc' = "crashed"
            /\ exc' = [name |-> "AttributeError", at |-> "schools"]
            /\ UNCHANGED schools
       ELSE /\ pc' = "summary"
            /\ schools' = CommonSchools(env_data, growth_data)
            /\ UNCHANGED exc
    /\ UNCHANGED <<dir, changes, cacheEnv, cacheGrowth, runs, env_data, growth_data,
                   rendered, errors, optimal_ec, shown, envBodyRuns, growthBodyRuns,
                   target, found>>

\* lines 137-153: the summary table of tab 1
Tab1Summary ==
    /\ pc = "summary"
    /\ rendered' = Append(rendered, Rendered("dataframe", "summary_df"))
    /\ pc' = "metrics"
    /\ UNCHANGED <<dir, changes, cacheEnv, cacheGrowth, runs, env_data, growth_data,
                   schools, errors, exc, optimal_ec, shown, envBodyRuns,
                   growthBodyRuns, target, found>>

\* lines 155-168: the metrics of tab 1.  pc = "tab2" stands for the rest of
\* the script (tabs 2 and 3), which runs only if line 168 returns.
Tab1Metrics ==
    /\ pc = "metrics"
    /\ LET o == OverviewMetrics(schools, growth_data)
       IN  /\ rendered' = rendered \o o.rendered
           /\ optimal_ec' = o.optimal_ec
           /\ shown' = o.shown
           /\ exc' = [name |-> o.exc, at |-> o.at]
           /\ pc' = IF o.exc = "" THEN "tab2" ELSE "crashed"
    /\ UNCHANGED <<dir, changes, cacheEnv, cacheGrowth, runs, env_data, growth_data,
                   schools, errors, envBodyRuns, growthBodyRuns, target, found>>

\* a widget interaction or a reload reruns the script from the top
Rerun ==
    /\ pc \in {"stopped", "crashed", "tab2"}
    /\ runs < MaxRuns
    /\ runs' = runs + 1
    /\ pc' = "start"
    /\ env_data' = None
    /\ growth_data' = None
    /\ schools' = <<>>
    /\ rendered' = <<>>
    /\ errors' = <<>>
    /\ exc' = NoExc
    /\ optimal_ec' = 0
    /\ shown' = 0
    /\ UNCHANGED <<dir, changes, cacheEnv, cacheGrowth, envBodyRuns, growthBodyRuns,
                   target, found>>

Next ==
    \/ RemoveFile
    \/ AddFile
    \/ LoadEnv
    \/ LoadGrowth
    \/ Guard
    \/ Tab1Summary
    \/ Tab1Metrics
    \/ Rerun

Spec == Init /\ [][Next]_vars

(***************************************************************************)
(* Extension match on its own: find_files_by_ext applied to a directory    *)
(* and a target extension.                                                 *)
(***************************************************************************)
\* ".go" with the Hangul syllable U+ACE0, composed and decomposed
DotGo == <<46, 44256>>
NfdDotGo == <<46, 4352, 4457>>
\* "memo", "a.xlsx.bak", "b.xls", "c.xlsxx", ".csv", "README"
Memo == <<109, 101, 109, 111>>
XlsxBak == <<97>> \o XlsxExt \o <<46, 98, 97, 107>>
Xls == <<98, 46, 120, 108, 115>>
Xlsxx == <<99>> \o XlsxExt \o <<120>>
Readme == <<82, 69, 65, 68, 77, 69>>

ExtensionsDir ==
    <<XlsxFile(DataXlsxUpper, TRUE, FourSheets), OtherFile(XlsxBak), OtherFile(Xls),
      OtherFile(Xlsxx), OtherFile(Memo \o NfdDotGo), OtherFile(Memo \o DotGo),
      OtherFile(CsvExt), OtherFile(Readme)>>

\* ".csv", ".CSV", ".xlsx", ".XLSX", ".Xlsx", ".txt", ".go" in both forms
Targets ==
    {CsvExt, <<46, 67, 83, 86>>, XlsxExt, <<46, 88, 76, 83, 88>>,
     <<46, 88, 108, 115, 120>>, <<46, 116, 120, 116>>, DotGo, NfdDotGo}

InitFind ==
    /\ dir \in Fixtures \cup {ExtensionsDir}
    /\ changes = 0
    /\ cacheEnv = NoEntry
    /\ cacheGrowth = NoEntry
    /\ pc = "find"
    /\ runs = 1
    /\ env_data = None
    /\ growth_data = None
    /\ schools = <<>>
    /\ rendered = <<>>
    /\ errors = <<>>
    /\ exc = NoExc
    /\ optimal_ec = 0
    /\ shown = 0
    /\ envBodyRuns = 0
    /\ growthBodyRuns = 0
    /\ target \in Targets
    /\ found = <<>>

FindFiles ==
    /\ pc = "find"
    /\ found' = find_files_by_ext(dir, target)
    /\ pc' = "found"
    /\ UNCHANGED <<dir, changes, cacheEnv, cacheGrowth, runs, env_data, growth_data,
                   schools, rendered, errors, exc, optimal_ec, shown, envBodyRuns,
                   growthBodyRuns, target>>

NextQuery ==
    /\ pc = "found"
    /\ target' \in Targets
    /\ found' = <<>>
    /\ pc' = "find"
    /\ UNCHANGED <<dir, changes, cacheEnv, cacheGrowth, runs, env_data, growth_data,
                   schools, rendered, errors, exc, optimal_ec, shown, envBodyRuns,
                   growthBodyRuns>>

NextFind ==
    \/ FindFiles
    \/ NextQuery
    \/ (pc = "find" /\ RemoveFile)
    \/ (pc = "find" /\ AddFile)

SpecFind == InitFind /\ [][NextFind]_vars

(***************************************************************************)
(* Notions the properties use                                              *)
(***************************************************************************)
\* the loader has returned in the current run
EnvReturned ==
    \/ pc \in {"loadGrowth", "guard", "stopped", "summary", "metrics", "tab2"}
    \/ (pc = "crashed" /\ exc.at # "load_environment_data")
GrowthReturned ==
    \/ pc \in {"guard", "stopped", "summary", "metrics", "tab2"}
    \/ (pc = "crashed" /\ exc.at \notin {"load_environment_data", "load_growth_data"})

EnvUnavailable == EnvReturned /\ ~env_data.some
GrowthUnavailable == GrowthReturned /\ ~growth_data.some

\* the name ends with ext, whatever the letter case
EndsWithCI(name, ext) ==
    /\ Len(name) > Len(ext)
    /\ lower(SubSeq(name, Len(name) - Len(ext) + 1, Len(name))) = lower(ext)

NoXlsxIn(d) == \A i \in 1..Len(d) : ~EndsWithCI(d[i].name, XlsxExt)

Contains(str, sub) ==
    \E i \in 1..(Len(str) - Len(sub) + 1) : SubSeq(str, i, i + Len(sub) - 1) = sub

Range(f) == {f[i] : i \in DOMAIN f}

(***************************************************************************)
(* Properties                                                              *)
(***************************************************************************)

\* C1: in a run in which a loader has returned None, nothing is rendered and
\* line 90 is never reached: the run is still loading, has stopped at the
\* guard (st.stop), or ended in the growth loader.
C1_FailFast ==
    (EnvUnavailable \/ GrowthUnavailable) =>
        /\ rendered = <<>>
        /\ schools = <<>>
        /\ \/ pc \in {"loadGrowth", "guard", "stopped"}
           \/ (pc = "crashed" /\ exc.at = "load_growth_data")

\* the scenario of the spec: the environment files are there, the workbook is
\* not, and the run has stopped at the guard
C1_Witness ==
    /\ pc = "stopped"
    /\ env_data.some
    /\ ~growth_data.some
    /\ rendered = <<>>

\* C2: when the directory read holds no file ending in .xlsx (in any letter
\* case), load_growth_data returns None (no mapping, not an empty one),
\* reports "not found" and opens no file; the run that called it holds None.
C2_NoWorkbook ==
    (cacheGrowth.has /\ NoXlsxIn(cacheGrowth.source)) =>
        /\ ~cacheGrowth.value.some
        /\ cacheGrowth.value = None
        /\ cacheGrowth.messages = <<GrowthNotFoundMsg>>
        /\ cacheGrowth.opened = <<>>
        /\ (pc = "guard" => growth_data = None /\ GrowthNotFoundMsg \in Range(errors))

C2_Witness ==
    /\ pc = "guard"
    /\ cacheGrowth.has
    /\ NoXlsxIn(cacheGrowth.source)
    /\ Len(cacheGrowth.source) > 0

\* C3 (as stated): from the scenario directory both datasets have 4 keys, the
\* same 4, and 4 schools are common to both.
BothFromScenario ==
    /\ cacheEnv.has /\ cacheEnv.source = ScenarioDir
    /\ cacheGrowth.has /\ cacheGrowth.source = ScenarioDir

C3_SameFourKeys ==
    BothFromScenario =>
        /\ cacheEnv.value.some /\ cacheGrowth.value.some
        /\ Cardinality(DOMAIN cacheEnv.value.data) = 4
        /\ DOMAIN cacheGrowth.value.data = DOMAIN cacheEnv.value.data
        /\ (pc = "summary" => Len(schools) = 4)

\* C3 (amended): from the scenario directory the environment dataset has the
\* 4 keys songdo, haneul, ara, dongsan (the leading tokens of the file names),
\* the growth dataset has the 4 school identifiers (the sheet names), and no
\* school is common to both.
C3_FourAndFourDisjoint ==
    BothFromScenario =>
        /\ cacheEnv.value.some /\ cacheGrowth.value.some
        /\ DOMAIN cacheEnv.value.data =
             {<<115, 111, 110, 103, 100, 111>>, <<104, 97, 110, 101, 117, 108>>,
              <<97, 114, 97>>, <<100, 111, 110, 103, 115, 97, 110>>}
        /\ DOMAIN cacheGrowth.value.data = {Songdo, Haneul, Ara, Dongsan}
        /\ Cardinality(DOMAIN cacheEnv.value.data) = 4
        /\ Cardinality(DOMAIN cacheGrowth.value.data) = 4
        /\ (pc \in {"summary", "metrics"} => schools = <<>>)

C3_Witness ==
    /\ BothFromScenario
    /\ pc = "summary"

\* the sheets of the workbook load_growth_data read
SheetsRead == find_files_by_ext(cacheGrowth.source, XlsxExt)[1].sheets
GrowthLoaded == cacheGrowth.has /\ cacheGrowth.value.some

\* the normalized names of a list of sheets
NormalizedNames(sheets) == [i \in 1..Len(sheets) |-> NFC(sheets[i].name)]

\* C4 (as stated): a workbook with N sheets gives exactly N keys, each sheet's
\* normalized name a key mapped to that sheet's rows.
C4_NKeys ==
    GrowthLoaded =>
        \A sheets \in {SheetsRead} : \A names \in {NormalizedNames(sheets)} :
            LET data == cacheGrowth.value.data
            IN  /\ Cardinality(DOMAIN data) = Len(sheets)
                /\ \A i \in 1..Len(sheets) :
                    /\ names[i] \in DOMAIN data
                    /\ data[names[i]] = sheets[i].rows

\* C4 (amended): the keys are exactly the NFC-normalized sheet names, one key
\* per distinct normalized name (N keys when no two sheets share one), and a
\* key maps to the rows of the last sheet with that normalized name.
C4_KeysAreNormalizedNames ==
    GrowthLoaded =>
        \A sheets \in {SheetsRead} : \A names \in {NormalizedNames(sheets)} :
            LET data == cacheGrowth.value.data
                n == Len(sheets)
            IN  /\ DOMAIN data = Range(names)
                /\ \A i \in 1..n :
                      (\A j \in (i + 1)..n : names[j] # names[i])
                          => data[names[i]] = sheets[i].rows
                /\ (\A i, j \in 1..n : i # j => names[i] # names[j])
                      => Cardinality(DOMAIN data) = n

\* a workbook was loaded in which two sheet names differ only in composition
C4_Witness ==
    /\ GrowthLoaded
    /\ \E sheets \in {SheetsRead} : \E names \in {NormalizedNames(sheets)} :
        \E i, j \in 1..Len(sheets) :
            /\ i # j
            /\ sheets[i].name # sheets[j].name
            /\ names[i] = names[j]

\* the csv files load_environment_data read
CsvRead == find_files_by_ext(cacheEnv.source, CsvExt)
EnvLoaded == cacheEnv.has /\ cacheEnv.value.some

WellFormed(file) ==
    /\ file.kind = "csv" /\ file.ok
    /\ \A i \in 1..Len(file.rows) : file.rows[i].time \in ValidTimes

\* C5: a well-formed environment file yields, for its school, as many records
\* as the file has rows, each time value of a date-time type.
C5_TimesParsed ==
    EnvLoaded =>
        \A file \in Range(CsvRead) :
            WellFormed(file) =>
                \A df \in {cacheEnv.value.data[SchoolOfFile(file)]} :
                    /\ Len(df) = Len(file.rows)
                    /\ \A i \in 1..Len(df) : df[i].time.type = "datetime"

\* C6: a file with a row whose time is missing or no timestamp fails the load
\* for its school: no table of that school is returned.
C6_BadTimeFails ==
    EnvLoaded =>
        \A file \in Range(CsvRead) :
            (\E i \in 1..Len(file.rows) : file.rows[i].time \notin ValidTimes)
                => SchoolOfFile(file) \notin DOMAIN cacheEnv.value.data

\* C7: find_files_by_ext returns exactly the entries whose normalized,
\* lower-cased extension equals the normalized, lower-cased target.
C7_ExtensionMatch ==
    pc = "found" =>
        found = SelectSeq(dir, LAMBDA f :
                    NFC(lower(suffix(f.name))) = NFC(lower(target)))

\* the first entry of d whose normalized name contains the normalized keyword
MatchesOf(d, keyword) == {i \in 1..Len(d) : Contains(NFC(d[i].name), NFC(keyword))}
FirstMatch(d, keyword) ==
    CHOOSE i \in MatchesOf(d, keyword) : \A j \in MatchesOf(d, keyword) : i <= j

\* C8: for every configured school S, the first file whose normalized name
\* contains S is the one whose data is stored under key S, and S has no entry
\* when no file matches.
C8_KeywordMatch ==
    EnvLoaded =>
        \A S \in DOMAIN ec_conditions :
            IF MatchesOf(cacheEnv.source, S) # {}
            THEN /\ S \in DOMAIN cacheEnv.value.data
                 /\ cacheEnv.value.data[S] =
                        read_csv(cacheEnv.source[FirstMatch(cacheEnv.source, S)]).value
            ELSE S \notin DOMAIN cacheEnv.value.data

\* C9 (as stated): the body of each loader runs at most once.
C9_BodyAtMostOnce == envBodyRuns <= 1 /\ growthBodyRuns <= 1

\* C9 (amended): once a loader has returned, its body never runs again, the
\* stored value is never overwritten, and every later call returns it.
C9_ReturnedOnce ==
    [][ /\ cacheEnv.has =>
            /\ cacheEnv' = cacheEnv
            /\ envBodyRuns' = envBodyRuns
            /\ (pc = "start" /\ pc' # pc => pc' = "loadGrowth" /\ env_data' = cacheEnv.value)
        /\ cacheGrowth.has =>
            /\ cacheGrowth' = cacheGrowth
            /\ growthBodyRuns' = growthBodyRuns
            /\ (pc = "loadGrowth" /\ pc' # pc => pc' = "guard" /\ growth_data' = cacheGrowth.value)
        /\ (~cacheEnv.has /\ cacheEnv'.has) => envBodyRuns' = envBodyRuns + 1
        /\ (~cacheGrowth.has /\ cacheGrowth'.has) => growthBodyRuns' = growthBodyRuns + 1
      ]_vars

\* a later run got the stored environment dataset although the directory
\* has changed and the body would now return something else
C9_Witness ==
    /\ runs >= 2
    /\ pc = "loadGrowth"
    /\ envBodyRuns = 1
    /\ env_data = cacheEnv.value
    /\ cacheEnv.source # dir
    /\ load_environment_data(dir).value # env_data

\* the overview tab has run to its end or to its exception
OverviewDone ==
    \/ pc = "tab2"
    \/ (pc = "crashed" /\ exc.at \in {"weight_means", "max", "c4.metric"})

IsBest(s) ==
    \A i \in 1..Len(schools) :
        ~MeanGreater(mean(growth_data.data[schools[i]], "weight"),
                     mean(growth_data.data[s], "weight"))

\* C10: with a non-empty set of common schools, all configured, the overview
\* tab raises no lookup error and shows the target EC of a school whose mean
\* fresh weight is the largest.
C10_OptimalEC ==
    (OverviewDone /\ schools # <<>> /\ Range(schools) \subseteq DOMAIN ec_conditions) =>
        /\ exc.name # "KeyError"
        /\ \E s \in Range(schools) : IsBest(s) /\ shown = ec_conditions[s]

====
